---- MODULE Spec2Model ----
(***************************************************************************)
(* QHttpSocket (src/src/qhttpsocket.cpp): a QIODevice layered on a         *)
(* QTcpSocket.  Inbound bytes are accumulated until CRLFCRLF, the header   *)
(* block is parsed, and the rest is exposed as the body; on the outbound   *)
(* side the response headers are to be produced once, before the body.     *)
(*                                                                         *)
(* Bytes and QChars are one-character strings; QByteArray and QString are  *)
(* sequences of them.  The alphabet is 7-bit ASCII without NUL, on which   *)
(* the QByteArray -> QString conversion of line 64 maps every byte to the  *)
(* character of the same code.                                             *)
(***************************************************************************)
EXTENDS Integers, Sequences, FiniteSets, TLC

\* ------------------------------------------------------------------ bounds
MaxHeaderLines == 2
MaxReadLen == 2
MaxOut == 2

\* ------------------------------------------------------- bytes and strings
CR == "\r"
LF == "\n"
CRLF == <<CR, LF>>
CRLFCRLF == <<CR, LF, CR, LF>>

Uppers == <<"A","B","C","D","E","F","G","H","I","J","K","L","M",
            "N","O","P","Q","R","S","T","U","V","W","X","Y","Z">>
Lowers == <<"a","b","c","d","e","f","g","h","i","j","k","l","m",
            "n","o","p","q","r","s","t","u","v","w","x","y","z">>

\* QChar::toLower on the ASCII range
toLowerChar(c) ==
    IF \E i \in 1..26 : Uppers[i] = c
    THEN Lowers[CHOOSE i \in 1..26 : Uppers[i] = c]
    ELSE c

\* QString::toLower
toLower(s) == [i \in 1..Len(s) |-> toLowerChar(s[i])]

\* QChar::isSpace on the ASCII range (the vertical tab is not in the alphabet)
isSpace(c) == c \in {" ", "\t", "\n", "\r", "\f"}

\* QString::trimmed: strip the white space at both ends
trimmed(s) ==
    LET keep == {i \in 1..Len(s) : ~isSpace(s[i])}
    IN  IF keep = {} THEN <<>>
        ELSE LET lo == CHOOSE i \in keep : \A j \in keep : i <= j
                 hi == CHOOSE i \in keep : \A j \in keep : j <= i
             IN  SubSeq(s, lo, hi)

\* qMin that returns its second argument
qMin_Second(a, b) == b

qMin(a, b) == IF a < b THEN a ELSE b

\* QByteArray::indexOf / QString::indexOf: 0-based position of the first
\* occurrence of pat in s, -1 when there is none
indexOf(s, pat) ==
    LET hits == {i \in 0..(Len(s) - Len(pat)) : SubSeq(s, i + 1, i + Len(pat)) = pat}
    IN  IF hits = {} THEN -1
        ELSE CHOOSE i \in hits : \A j \in hits : i <= j

\* left(n), mid(pos) and remove(0, n), for 0 <= n
left(s, n) == IF n >= Len(s) THEN s ELSE SubSeq(s, 1, n)
mid(s, pos) == SubSeq(s, pos + 1, Len(s))
\* remove(0, n) that leaves the last of the n bytes in place
removeFront_OneShort(s, n) ==
    IF n = 0 THEN s
    ELSE IF n - 1 >= Len(s) THEN <<>>
    ELSE SubSeq(s, n, Len(s))

removeFront(s, n) == IF n >= Len(s) THEN <<>> ELSE SubSeq(s, n + 1, Len(s))

\* QString::split(sep), empty parts kept
RECURSIVE split(_, _)
split(s, sep) ==
    LET i == indexOf(s, sep)
    IN  IF i = -1 THEN <<s>>
        ELSE <<left(s, i)>> \o split(mid(s, i + Len(sep)), sep)

\* QString::operator< : code-unit order; Ascii lists the alphabet's characters
\* by increasing code
Ascii == <<"\t", "\n", "\f", "\r", " ", "-", ".", "/", "0", "1", "2", "4", "9", ":">>
         \o Uppers \o Lowers
code(c) == CHOOSE i \in 1..Len(Ascii) : Ascii[i] = c
RECURSIVE lessStr(_, _)
lessStr(s, t) ==
    IF t = <<>> THEN FALSE
    ELSE IF s = <<>> THEN TRUE
    ELSE IF s[1] # t[1] THEN code(s[1]) < code(t[1])
    ELSE lessStr(Tail(s), Tail(t))

\* QMap<QString, QString>: its <<key, value>> entries by increasing key, the
\* order in which constBegin() .. constEnd() and keys() visit them
EmptyMap == <<>>
\* an insert that keeps the entries in the order their keys were first set
mapInsert_Append(m, key, value) ==
    IF \E i \in 1..Len(m) : m[i][1] = key
    THEN [i \in 1..Len(m) |-> IF m[i][1] = key THEN <<key, value>> ELSE m[i]]
    ELSE Append(m, <<key, value>>)

mapInsert(m, key, value) ==
    SelectSeq(m, LAMBDA e : lessStr(e[1], key))
    \o <<<<key, value>>>>
    \o SelectSeq(m, LAMBDA e : lessStr(key, e[1]))
mapValue(m, key) ==
    IF \E i \in 1..Len(m) : m[i][1] = key
    THEN m[CHOOSE i \in 1..Len(m) : m[i][1] = key][2]
    ELSE <<>>
mapKeys(m) == [i \in 1..Len(m) |-> m[i][1]]

\* ------------------------------------------------------------------- state
VARIABLES
    inbound,                \* the bytes the peer sends on the QTcpSocket
    arrived,                \* how many of them readyRead() has delivered
    socketOpen,             \* the QTcpSocket is open
    socketOut,              \* the bytes handed to socket.write so far
    buffer,                 \* QHttpSocketPrivate::buffer
    error,                  \* QHttpSocketPrivate::error
    errorString,            \* QIODevice::errorString
    requestHeadersRead,
    requestMethod,
    requestUri,
    requestHeaders,
    responseStatusCode,
    responseHeaders,
    responseHeadersWritten,
    emitted,                \* the signals emitted so far, in order
    built,                  \* the runs of writeResponseHeaders: caller and string built
    consumed,               \* the bytes readData has copied out so far
    splitInDelim,           \* a chunk boundary fell inside the first CRLFCRLF
    ret                     \* what the latest call returned

reqVars == <<buffer, error, errorString, requestHeadersRead, requestMethod,
             requestUri, requestHeaders>>
respVars == <<responseStatusCode, responseHeaders, responseHeadersWritten>>
vars == <<inbound, arrived, socketOpen, socketOut, reqVars, respVars,
          emitted, built, consumed, splitInDelim, ret>>

\* QHttpSocket::Error
Errors == {"None", "MalformedRequestLine", "MalformedRequestHeader",
           "InvalidHttpVersion", "IncompleteHeader"}

Signal(name, arg) == [sig |-> name, arg |-> arg]
Void == [op |-> "void", maxlen |-> 0, n |-> 0]

\* The request side of QHttpSocketPrivate as one value
Priv ==
    [buffer |-> buffer, error |-> error, errorString |-> errorString,
     requestHeadersRead |-> requestHeadersRead, requestMethod |-> requestMethod,
     requestUri |-> requestUri, requestHeaders |-> requestHeaders,
     emitted |-> emitted]

\* ... and as the constructor leaves it
Constructed ==
    [buffer |-> <<>>, error |-> "None", errorString |-> "",
     requestHeadersRead |-> FALSE, requestMethod |-> <<>>,
     requestUri |-> <<>>, requestHeaders |-> EmptyMap,
     emitted |-> <<>>]

\* --------------------------------------------------------- request parsing
HTTP10 == <<"H","T","T","P","/","1",".","0">>
HTTP11 == <<"H","T","T","P","/","1",".","1">>

errorText(socketError, old) ==
    CASE socketError = "MalformedRequestLine" -> "Malformed request line"
      [] socketError = "MalformedRequestHeader" -> "Malformed request header"
      [] socketError = "InvalidHttpVersion" -> "Invalid HTTP version"
      [] socketError = "IncompleteHeader" -> "Incomplete header received"
      [] OTHER -> old

abortWithError(d, socketError) ==
    [d EXCEPT !.error = socketError,
              !.errorString = errorText(socketError, @),
              !.emitted = Append(@, Signal("errorChanged", socketError))]

\* parseRequestLine without its version test
parseRequestLine_AnyVersion(d, line) ==
    LET parts == split(line, <<" ">>)
    IN  IF Len(parts) # 3
        THEN abortWithError(d, "MalformedRequestLine")
        ELSE [d EXCEPT !.requestMethod = parts[1], !.requestUri = parts[2]]

parseRequestLine(d, line) ==
    LET parts == split(line, <<" ">>)
    IN  IF Len(parts) # 3
        THEN abortWithError(d, "MalformedRequestLine")
        ELSE IF parts[3] # HTTP10 /\ parts[3] # HTTP11
        THEN abortWithError(d, "InvalidHttpVersion")
        ELSE [d EXCEPT !.requestMethod = parts[1], !.requestUri = parts[2]]

\* parseRequestHeader cutting the line at its last ":"
parseRequestHeader_LastColon(d, header) ==
    LET at == {i \in 1..Len(header) : header[i] = ":"}
        index == IF at = {} THEN -1
                 ELSE (CHOOSE i \in at : \A j \in at : j <= i) - 1
    IN  IF index = -1
        THEN abortWithError(d, "MalformedRequestHeader")
        ELSE [d EXCEPT !.requestHeaders =
                  mapInsert(@, toLower(trimmed(left(header, index))),
                               trimmed(mid(header, index + 1)))]

parseRequestHeader(d, header) ==
    LET index == indexOf(header, <<":">>)
    IN  IF index = -1
        THEN abortWithError(d, "MalformedRequestHeader")
        ELSE [d EXCEPT !.requestHeaders =
                  mapInsert(@, toLower(trimmed(left(header, index))),
                               trimmed(mid(header, index + 1)))]

\* foreach(QString header, parts) parseRequestHeader(header);
RECURSIVE foreachHeader(_, _)
foreachHeader(d, parts) ==
    IF parts = <<>> THEN d
    ELSE foreachHeader(parseRequestHeader(d, Head(parts)), Tail(parts))

parseRequestHeaders(d, headers) ==
    LET parts == split(headers, CRLF)
    IN  foreachHeader(parseRequestLine(d, Head(parts)), Tail(parts))

\* onReadyRead looking for the delimiter in the bytes just read only
onReadyReadStep_ChunkOnly(d, chunk) ==
    LET d1 == [d EXCEPT !.buffer = @ \o chunk]
        found == indexOf(chunk, CRLFCRLF)
        index == IF found = -1 THEN -1 ELSE Len(d.buffer) + found
    IN  IF ~d1.requestHeadersRead
        THEN IF index # -1
             THEN LET d2 == parseRequestHeaders(d1, left(d1.buffer, index))
                  IN  [d2 EXCEPT !.buffer = removeFront(@, index + 4),
                                 !.requestHeadersRead = TRUE,
                                 !.emitted = Append(@, Signal("requestHeadersParsed", "None"))]
             ELSE d1
        ELSE [d1 EXCEPT !.emitted = Append(@, Signal("readyRead", "None"))]

\* onReadyRead taking the first CRLF for the end of the header block
onReadyReadStep_FirstCRLF(d, chunk) ==
    LET d1 == [d EXCEPT !.buffer = @ \o chunk]
        index == indexOf(d1.buffer, CRLF)
    IN  IF ~d1.requestHeadersRead
        THEN IF index # -1
             THEN LET d2 == parseRequestHeaders(d1, left(d1.buffer, index))
                  IN  [d2 EXCEPT !.buffer = removeFront(@, index + 2),
                                 !.requestHeadersRead = TRUE,
                                 !.emitted = Append(@, Signal("requestHeadersParsed", "None"))]
             ELSE d1
        ELSE [d1 EXCEPT !.emitted = Append(@, Signal("readyRead", "None"))]

\* onReadyRead without its requestHeadersRead test: every arrival looks for a
\* header block
onReadyReadStep_Reparse(d, chunk) ==
    LET d1 == [d EXCEPT !.buffer = @ \o chunk]
        index == indexOf(d1.buffer, CRLFCRLF)
    IN  IF index # -1
        THEN LET d2 == parseRequestHeaders(d1, left(d1.buffer, index))
             IN  [d2 EXCEPT !.buffer = removeFront(@, index + 4),
                            !.requestHeadersRead = TRUE,
                            !.emitted = Append(@, Signal("requestHeadersParsed", "None"))]
        ELSE IF d1.requestHeadersRead
        THEN [d1 EXCEPT !.emitted = Append(@, Signal("readyRead", "None"))]
        ELSE d1

\* The slot onReadyRead, socket.readAll() having returned chunk
onReadyReadStep(d, chunk) ==
    LET d1 == [d EXCEPT !.buffer = @ \o chunk]
        index == indexOf(d1.buffer, CRLFCRLF)
    IN  IF ~d1.requestHeadersRead
        THEN IF index # -1
             THEN LET d2 == parseRequestHeaders(d1, left(d1.buffer, index))
                  IN  [d2 EXCEPT !.buffer = removeFront(@, index + 4),
                                 !.requestHeadersRead = TRUE,
                                 !.emitted = Append(@, Signal("requestHeadersParsed", "None"))]
             ELSE d1
        ELSE [d1 EXCEPT !.emitted = Append(@, Signal("readyRead", "None"))]

\* ------------------------------------------------------- response headers
Status200 == <<"2", "0", "0", " ", "O", "K">>
Status404 == <<"4", "0", "4", " ", "N", "o", "t", " ", "F", "o", "u", "n", "d">>

\* QString("HTTP/1.0 %1\r\n").arg(responseStatusCode)
statusLine(statusCode) ==
    <<"H", "T", "T", "P", "/", "1", ".", "0", " ">> \o statusCode \o CRLF

\* headers += QString("%1: %2").arg(i.key(), i.value()), over the map
RECURSIVE headerLines(_)
headerLines(m) ==
    IF m = <<>> THEN <<>>
    ELSE m[1][1] \o <<":", " ">> \o m[1][2] \o headerLines(Tail(m))

\* The local QString headers of writeResponseHeaders
headersString(statusCode, m) == statusLine(statusCode) \o headerLines(m)

\* ------------------------------------------------------------------ inputs
RL_Get11 == <<"G", " ", "/", "f", " ", "H", "T", "T", "P", "/", "1", ".", "1">>
RL_Put10 == <<"P", " ", "/", " ", "H", "T", "T", "P", "/", "1", ".", "0">>
RL_TwoFields == <<"G", " ", "/", "f">>
RL_BadVersion == <<"G", " ", "/", " ", "F", "/", "9">>
RL_TwoSpaces == <<"G", " ", " ", "/", " ", "H", "T", "T", "P", "/", "1", ".", "1">>
RequestLines == {RL_Get11, RL_Put10, RL_TwoFields, RL_BadVersion, RL_TwoSpaces, <<>>}

HL_Ax == <<"A", ":", " ", "x">>
HL_Padded == <<" ", "a", " ", ":", "\t", "y", ":", "z", " ">>
HL_NoColon == <<"X", " ", "n">>
HeaderLines == {HL_Ax, HL_Padded, HL_NoColon}
HeaderBlocks == UNION {[1..n -> HeaderLines] : n \in 0..MaxHeaderLines}

Body_hi == <<"h", "i">>
Body_Request == <<"G", "\r", "\n", "\r", "\n">>

\* what follows the last line: the delimiter and a body, or, for a header
\* block cut short, a single CRLF
Tails == {CRLFCRLF, CRLFCRLF \o Body_hi, CRLF}

RECURSIVE joinLines(_)
joinLines(lines) ==
    IF Len(lines) = 1 THEN lines[1]
    ELSE lines[1] \o CRLF \o joinLines(Tail(lines))

Request(line, headers, tail) == joinLines(<<line>> \o headers) \o tail

\* what the peer may send
\* every request line with at most one header line and every tail, a
\* well-formed and a malformed request line with every header block and a
\* body, and a request whose body is a header block of its own
ParseInputs ==
    {Request(l, hs, t) : l \in RequestLines,
                         hs \in {b \in HeaderBlocks : Len(b) <= 1}, t \in Tails}
    \cup {Request(l, hs, CRLFCRLF \o Body_hi) : l \in {RL_Put10, RL_TwoFields},
                                                hs \in HeaderBlocks}
    \cup {Request(RL_Get11, <<HL_Ax>>, CRLFCRLF \o Body_Request)}
\* the requests whose fields the owner reads back
AccessInputs ==
    {Request(RL_Put10, hs, CRLFCRLF) : hs \in HeaderBlocks}
    \cup {Request(RL_TwoFields, <<HL_Ax>>, CRLFCRLF)}
SmallInputs ==
    {Request(RL_Put10, <<>>, CRLFCRLF \o <<"h">>),
     Request(<<"G">>, <<>>, CRLFCRLF)}

\* what the owner may pass
StatusCodes == {Status200, Status404}
HeaderArgs == {<< <<"a">>, <<"x">> >>, << <<"B">>, <<"y">> >>,
               << <<"a">>, <<"y">> >>}
HeaderNames == {<<"a">>, <<"A">>, <<"x">>}
Payloads == {<<>>, <<"h">>}

\* ----------------------------------------------------------- construction
Constructor(inputs) ==
    /\ inbound \in inputs
    /\ arrived = 0
    /\ socketOpen = TRUE
    /\ socketOut = <<>>
    /\ buffer = <<>>
    /\ error = "None"
    /\ errorString = ""
    /\ requestHeadersRead = FALSE
    /\ requestMethod = <<>>
    /\ requestUri = <<>>
    /\ requestHeaders = EmptyMap
    /\ responseStatusCode = Status200
    /\ responseHeaders = EmptyMap
    /\ responseHeadersWritten = FALSE
    /\ emitted = <<>>
    /\ built = <<>>
    /\ consumed = <<>>
    /\ splitInDelim = FALSE
    /\ ret = Void

Init == Constructor(SmallInputs)
InitParse == Constructor(ParseInputs)
InitAccess == Constructor(AccessInputs)

\* ----------------------------------------------------------------- actions
\* onReadyRead closing the socket when the parse has raised an error
onReadyRead_ClosesOnError ==
    /\ socketOpen
    /\ \E n \in 1..(Len(inbound) - arrived) :
        LET chunk == SubSeq(inbound, arrived + 1, arrived + n)
        IN  \E d \in {onReadyReadStep(Priv, chunk)},
               index \in {indexOf(buffer \o chunk, CRLFCRLF)} :
                /\ arrived' = arrived + n
                /\ buffer' = d.buffer
                /\ error' = d.error
                /\ errorString' = d.errorString
                /\ requestHeadersRead' = d.requestHeadersRead
                /\ requestMethod' = d.requestMethod
                /\ requestUri' = d.requestUri
                /\ requestHeaders' = d.requestHeaders
                /\ emitted' = d.emitted
                /\ socketOpen' = (d.error = "None")
                /\ splitInDelim' =
                     (splitInDelim \/ (/\ ~requestHeadersRead
                                       /\ index # -1
                                       /\ index < Len(buffer)
                                       /\ Len(buffer) < index + 4))
    /\ ret' = Void
    /\ UNCHANGED <<inbound, socketOut, respVars, built, consumed>>

\* readyRead() of the QTcpSocket: the next n bytes have arrived
onReadyRead ==
    /\ socketOpen
    /\ \E n \in 1..(Len(inbound) - arrived) :
        LET chunk == SubSeq(inbound, arrived + 1, arrived + n)
        IN  \E d \in {onReadyReadStep(Priv, chunk)},
               index \in {indexOf(buffer \o chunk, CRLFCRLF)} :
                /\ arrived' = arrived + n
                /\ buffer' = d.buffer
                /\ error' = d.error
                /\ errorString' = d.errorString
                /\ requestHeadersRead' = d.requestHeadersRead
                /\ requestMethod' = d.requestMethod
                /\ requestUri' = d.requestUri
                /\ requestHeaders' = d.requestHeaders
                /\ emitted' = d.emitted
                /\ splitInDelim' =
                     (splitInDelim \/ (/\ ~requestHeadersRead
                                       /\ index # -1
                                       /\ index < Len(buffer)
                                       /\ Len(buffer) < index + 4))
    /\ ret' = Void
    /\ UNCHANGED <<inbound, socketOpen, socketOut, respVars, built, consumed>>

readData ==
    \E maxlen \in 0..MaxReadLen :
        IF ~requestHeadersRead
        THEN /\ ret' = [op |-> "readData", maxlen |-> maxlen, n |-> -1]
             /\ UNCHANGED <<inbound, arrived, socketOpen, socketOut, reqVars,
                            respVars, emitted, built, consumed, splitInDelim>>
        ELSE LET size == qMin(Len(buffer), maxlen)
             IN  /\ ret' = [op |-> "readData", maxlen |-> maxlen, n |-> size]
                 /\ consumed' = consumed \o left(buffer, size)
                 /\ buffer' = removeFront(buffer, size)
                 /\ UNCHANGED <<inbound, arrived, socketOpen, socketOut, error,
                                errorString, requestHeadersRead, requestMethod,
                                requestUri, requestHeaders, respVars, emitted,
                                built, splitInDelim>>

setResponseStatusCode ==
    \E statusCode \in StatusCodes :
        /\ responseStatusCode' = statusCode
        /\ ret' = Void
        /\ UNCHANGED <<inbound, arrived, socketOpen, socketOut, reqVars,
                       responseHeaders, responseHeadersWritten, emitted, built,
                       consumed, splitInDelim>>

setResponseHeader ==
    \E a \in HeaderArgs :
        /\ responseHeaders' = mapInsert(responseHeaders, a[1], a[2])
        /\ ret' = Void
        /\ UNCHANGED <<inbound, arrived, socketOpen, socketOut, reqVars,
                       responseStatusCode, responseHeadersWritten, emitted, built,
                       consumed, splitInDelim>>

\* the string is built and dropped: nothing is handed to the socket
writeResponseHeaders(caller) ==
    /\ built' = Append(built, [by |-> caller,
                               headers |-> headersString(responseStatusCode,
                                                         responseHeaders)])
    /\ responseHeadersWritten' = TRUE

\* close that also drops what is buffered
close_DropsBuffer ==
    /\ IF ~responseHeadersWritten
       THEN writeResponseHeaders("close")
       ELSE UNCHANGED <<built, responseHeadersWritten>>
    /\ socketOpen' = FALSE
    /\ buffer' = <<>>
    /\ ret' = Void
    /\ UNCHANGED <<inbound, arrived, socketOut, error, errorString,
                   requestHeadersRead, requestMethod, requestUri,
                   requestHeaders, responseStatusCode, responseHeaders,
                   emitted, consumed, splitInDelim>>

close ==
    /\ IF ~responseHeadersWritten
       THEN writeResponseHeaders("close")
       ELSE UNCHANGED <<built, responseHeadersWritten>>
    /\ socketOpen' = FALSE
    /\ ret' = Void
    /\ UNCHANGED <<inbound, arrived, socketOut, reqVars, responseStatusCode,
                   responseHeaders, emitted, consumed, splitInDelim>>

\* writeData without its responseHeadersWritten test
writeData_Unguarded ==
    \E data \in Payloads :
        /\ Len(socketOut) + Len(data) <= MaxOut
        /\ writeResponseHeaders("writeData")
        /\ IF socketOpen
           THEN /\ socketOut' = socketOut \o data
                /\ ret' = [op |-> "writeData", maxlen |-> Len(data),
                           n |-> Len(data)]
           ELSE /\ socketOut' = socketOut
                /\ ret' = [op |-> "writeData", maxlen |-> Len(data),
                           n |-> -1]
        /\ UNCHANGED <<inbound, arrived, socketOpen, reqVars, responseStatusCode,
                       responseHeaders, emitted, consumed, splitInDelim>>

\* socket.write takes all of data while the socket is open, and fails with -1
\* once it is closed
writeData ==
    \E data \in Payloads :
        /\ Len(socketOut) + Len(data) <= MaxOut
        /\ IF ~responseHeadersWritten
           THEN writeResponseHeaders("writeData")
           ELSE UNCHANGED <<built, responseHeadersWritten>>
        /\ IF socketOpen
           THEN /\ socketOut' = socketOut \o data
                /\ ret' = [op |-> "writeData", maxlen |-> Len(data),
                           n |-> Len(data)]
           ELSE /\ socketOut' = socketOut
                /\ ret' = [op |-> "writeData", maxlen |-> Len(data),
                           n |-> -1]
        /\ UNCHANGED <<inbound, arrived, socketOpen, reqVars, responseStatusCode,
                       responseHeaders, emitted, consumed, splitInDelim>>

\* The accessors of the request.  The qWarning they print while
\* requestHeadersRead is false changes nothing in the object; the member is
\* returned in either case.
QHttpSocket_requestMethod ==
    /\ ret' = [op |-> "requestMethod", arg |-> <<>>, value |-> requestMethod]
    /\ UNCHANGED <<inbound, arrived, socketOpen, socketOut, reqVars, respVars,
                   emitted, built, consumed, splitInDelim>>

QHttpSocket_requestUri ==
    /\ ret' = [op |-> "requestUri", arg |-> <<>>, value |-> requestUri]
    /\ UNCHANGED <<inbound, arrived, socketOpen, socketOut, reqVars, respVars,
                   emitted, built, consumed, splitInDelim>>

\* returns d->requestHeaders.keys()
QHttpSocket_requestHeaders ==
    /\ ret' = [op |-> "requestHeaders", arg |-> <<>>,
               value |-> mapKeys(requestHeaders)]
    /\ UNCHANGED <<inbound, arrived, socketOpen, socketOut, reqVars, respVars,
                   emitted, built, consumed, splitInDelim>>

\* requestHeader reading the map with operator[], which inserts a default
\* entry for a key that is absent
QHttpSocket_requestHeader_Subscript ==
    \E header \in HeaderNames :
        /\ ret' = [op |-> "requestHeader", arg |-> header,
                   value |-> mapValue(requestHeaders, toLower(header))]
        /\ requestHeaders' =
             IF \E i \in 1..Len(requestHeaders) :
                    requestHeaders[i][1] = toLower(header)
             THEN requestHeaders
             ELSE mapInsert(requestHeaders, toLower(header), <<>>)
        /\ UNCHANGED <<inbound, arrived, socketOpen, socketOut, buffer, error,
                       errorString, requestHeadersRead, requestMethod,
                       requestUri, respVars, emitted, built, consumed,
                       splitInDelim>>

\* returns d->requestHeaders.value(header.toLower())
QHttpSocket_requestHeader ==
    \E header \in HeaderNames :
        /\ ret' = [op |-> "requestHeader", arg |-> header,
                   value |-> mapValue(requestHeaders, toLower(header))]
        /\ UNCHANGED <<inbound, arrived, socketOpen, socketOut, reqVars,
                       respVars, emitted, built, consumed, splitInDelim>>

Next ==
    \/ onReadyRead
    \/ readData
    \/ setResponseStatusCode
    \/ setResponseHeader
    \/ writeData
    \/ close

Spec == Init /\ [][Next]_vars

\* the request side alone, over every input
NextParse ==
    \/ onReadyRead
    \/ readData

SpecParse == InitParse /\ [][NextParse]_vars

\* readyRead() of the QTcpSocket, which line 37 connects to the slot: some of
\* the bytes still to come have arrived.  The steps of NextParse that satisfy
\* it are the onReadyRead steps, and it is enabled exactly when onReadyRead is.
socket_readyRead == socketOpen /\ arrived' \in (arrived + 1)..Len(inbound)

\* ... with every chunk delivered: while bytes are still to come on the open
\* socket, the event loop eventually runs the slot
SpecParseFair == SpecParse /\ WF_arrived(socket_readyRead)

\* the request side with its accessors, over requests with every header block
NextAccess ==
    \/ onReadyRead
    \/ QHttpSocket_requestMethod
    \/ QHttpSocket_requestUri
    \/ QHttpSocket_requestHeaders
    \/ QHttpSocket_requestHeader

SpecAccess == InitAccess /\ [][NextAccess]_vars

\* ------------------------------------------------------------------ claims
IsPrefix(p, s) == Len(p) <= Len(s) /\ SubSeq(s, 1, Len(p)) = p

\* C1: once writeData has triggered the response headers, the bytes handed to
\* the socket begin with the status line and header block that were
\* serialized, and they were serialized once.
C1_HeadersPrecedeBody ==
    (built # <<>> /\ built[1].by = "writeData")
        => (Len(built) = 1 /\ IsPrefix(built[1].headers, socketOut))

\* C2: when close() finds that nothing was written, the status line and the
\* header block are handed to the socket, once, and the socket is then closed.
C2_CloseEmitsHeaders ==
    (built # <<>> /\ built[1].by = "close")
        => (Len(built) = 1 /\ ~socketOpen /\ IsPrefix(built[1].headers, socketOut))

\* C3: writeResponseHeaders runs at most once: a step that runs it starts with
\* responseHeadersWritten false and ends with it true, it has run at most once
\* in all, and responseHeadersWritten never goes back to false.
C3_HeadersWrittenAtMostOnce ==
    [][/\ Len(built') <= 1
       /\ (built' # built =>
              /\ ~responseHeadersWritten
              /\ responseHeadersWritten'
              /\ Len(built') = Len(built) + 1)
       /\ (responseHeadersWritten => responseHeadersWritten')]_vars

\* C3 witness: two body writes and a close have run, the headers once
C3_Witness ==
    /\ Len(built) = 1
    /\ built[1].by = "writeData"
    /\ Len(socketOut) = 2
    /\ ~socketOpen

\* C8: once responseHeadersWritten is true, responseStatusCode and
\* responseHeaders stay as they were when the headers were written.
C8_ResponseFrozen ==
    responseHeadersWritten =>
        /\ built # <<>>
        /\ headersString(responseStatusCode, responseHeaders) = built[1].headers

\* the signals of one kind, in the order emitted
signals(name) == SelectSeq(emitted, LAMBDA e : e.sig = name)

\* C4: requestHeadersParsed is emitted at most once and only for a header block
\* that parsed: an error and requestHeadersRead never hold together, and no
\* requestHeadersParsed is emitted on a connection whose error is set.
C4_ParsedOnlyOnSuccess ==
    /\ Len(signals("requestHeadersParsed")) <= 1
    /\ ~(error # "None" /\ requestHeadersRead)
    /\ (error # "None" => signals("requestHeadersParsed") = <<>>)

\* C5: the error is set by the first line that fails to parse and keeps that
\* kind: it is None exactly while no line has failed, and otherwise the kind
\* of the first failure.
C5_FirstFailureWins ==
    IF signals("errorChanged") = <<>>
    THEN error = "None"
    ELSE error = signals("errorChanged")[1].arg

\* C6: errorChanged is emitted at most once on a connection.
C6_ErrorEmittedOnce == Len(signals("errorChanged")) <= 1

\* C7: however the bytes arrived so far were cut into chunks, the request
\* fields, the error and the body (what was read, then what is buffered) are
\* those onReadyRead produces when the same bytes arrive as one chunk.
C7_ChunkInvariance ==
    arrived > 0 =>
        \A one \in {onReadyReadStep(Constructed, SubSeq(inbound, 1, arrived))} :
            /\ requestHeadersRead = one.requestHeadersRead
            /\ requestMethod = one.requestMethod
            /\ requestUri = one.requestUri
            /\ requestHeaders = one.requestHeaders
            /\ error = one.error
            /\ consumed \o buffer = one.buffer

\* C7 witness: a well-formed request with headers and a body has been parsed,
\* a chunk boundary having fallen inside its CRLFCRLF
C7_Witness ==
    /\ splitInDelim
    /\ requestHeadersRead
    /\ error = "None"
    /\ Len(requestHeaders) = 1
    /\ requestMethod = <<"P">>
    /\ arrived = Len(inbound)
    /\ buffer = Body_hi

\* C9: readData returns -1 and leaves the buffer alone while requestHeadersRead
\* is false; afterwards it returns min(maxlen, buffer length), never -1, copies
\* out that many bytes from the front of the buffer, and removes exactly those.
C9_ReadData ==
    [][ret'.op = "readData" =>
          IF ~requestHeadersRead
          THEN ret'.n = -1 /\ buffer' = buffer /\ consumed' = consumed
          ELSE LET k == IF ret'.maxlen < Len(buffer) THEN ret'.maxlen ELSE Len(buffer)
               IN  /\ ret'.n = k
                   /\ consumed' = consumed \o SubSeq(buffer, 1, k)
                   /\ buffer' = SubSeq(buffer, k + 1, Len(buffer))]_vars

\* C9 witness: a read asked for more than was buffered and got what there was,
\* after an earlier read
C9_Witness ==
    /\ ret.op = "readData"
    /\ ret.n = 1
    /\ ret.maxlen = 2
    /\ consumed = Body_hi
    /\ buffer = <<>>

\* the bytes that follow the first CRLFCRLF of bytes
bodyOf(bytes) == SubSeq(bytes, indexOf(bytes, CRLFCRLF) + 5, Len(bytes))

\* C10: once the headers are complete, what readData has returned so far
\* followed by what is buffered is exactly what arrived after the first
\* CRLFCRLF; before that, nothing has been returned.
C10_BodyConservation ==
    IF requestHeadersRead
    THEN consumed \o buffer = bodyOf(SubSeq(inbound, 1, arrived))
    ELSE consumed = <<>>

\* C10 witness: part of a body that holds a CRLFCRLF of its own has been read,
\* the rest is buffered
C10_Witness ==
    /\ requestHeadersRead
    /\ arrived = Len(inbound)
    /\ consumed = <<"G", "\r">>
    /\ buffer = <<"\n", "\r", "\n">>

\* C11: once requestHeadersRead is true, a data arrival appends the bytes to
\* the buffer and emits readyRead once and nothing else: the header block is
\* not parsed again, so requestMethod, requestUri, requestHeaders and the error
\* stay as they are, whatever the bytes hold, and requestHeadersParsed is not
\* emitted again.
C11_NoReparse ==
    [][(requestHeadersRead /\ arrived' # arrived) =>
          /\ emitted' = Append(emitted, [sig |-> "readyRead", arg |-> "None"])
          /\ buffer' = buffer \o SubSeq(inbound, arrived + 1, arrived')
          /\ UNCHANGED <<requestHeadersRead, requestMethod, requestUri,
                         requestHeaders, error, errorString>>]_vars

\* C11 witness: after a well-formed header block, a body that is a header block
\* of its own, CRLFCRLF included, has arrived in later chunks
C11_Witness ==
    /\ requestHeadersRead
    /\ arrived = Len(inbound)
    /\ consumed \o buffer = Body_Request
    /\ Len(signals("readyRead")) >= 1
    /\ Len(signals("requestHeadersParsed")) = 1
    /\ requestMethod = <<"G">>
    /\ requestUri = <<"/", "f">>
    /\ error = "None"

\* C12: once the header block is parsed, with the request line being the bytes
\* before the first CRLF: a line that does not hold exactly two spaces (three
\* fields) raises MalformedRequestLine; a line of three fields whose third is
\* neither HTTP/1.0 nor HTTP/1.1 raises InvalidHttpVersion; in both cases, the
\* first error raised on the connection is that one, it is the error reported
\* when no other line fails, and requestMethod and requestUri stay empty.
\* Otherwise requestMethod and requestUri are the first and second field as
\* sent, and neither of the two errors is raised.
C12_RequestLine ==
    requestHeadersRead =>
        LET line == SubSeq(inbound, 1, indexOf(inbound, <<"\r", "\n">>))
            spaces == {i \in 1..Len(line) : line[i] = " "}
            raised == signals("errorChanged")
            fails(kind) ==
                /\ raised # <<>>
                /\ raised[1].arg = kind
                /\ (Len(raised) = 1 => error = kind)
                /\ requestMethod = <<>>
                /\ requestUri = <<>>
        IN  IF Cardinality(spaces) # 2
            THEN fails("MalformedRequestLine")
            ELSE LET i == CHOOSE s \in spaces : \A t \in spaces : s <= t
                     j == CHOOSE s \in spaces : \A t \in spaces : t <= s
                 IN  IF SubSeq(line, j + 1, Len(line)) \notin {HTTP10, HTTP11}
                     THEN fails("InvalidHttpVersion")
                     ELSE /\ requestMethod = SubSeq(line, 1, i - 1)
                          /\ requestUri = SubSeq(line, i + 1, j - 1)
                          /\ \A k \in 1..Len(raised) :
                                raised[k].arg \notin {"MalformedRequestLine",
                                                      "InvalidHttpVersion"}

\* C12 witness: a request line of three fields with the version F/9 has been
\* parsed
C12_Witness ==
    /\ requestHeadersRead
    /\ IsPrefix(RL_BadVersion, inbound)
    /\ error = "InvalidHttpVersion"
    /\ errorString = "Invalid HTTP version"
    /\ requestMethod = <<>>
    /\ requestUri = <<>>

\* the header lines of the request: the lines of the header block after the
\* request line
headerLinesOf(bytes) ==
    Tail(split(SubSeq(bytes, 1, indexOf(bytes, <<"\r", "\n", "\r", "\n">>)),
               <<"\r", "\n">>))

\* C13: every header line without ":" raises MalformedRequestHeader; every
\* other line is stored under the text before its first ":", trimmed and
\* lower-cased, with the text after that ":", trimmed, as value.  The keys of
\* requestHeaders are distinct and hold no upper-case letter, a name sent
\* twice keeps the value of its last line, and requestHeader(name) returns the
\* value stored under the lower-cased name, hence the same for every
\* letter-casing of the name, and the empty string for a name not stored.
C13_HeaderLines ==
    LET stored == 1..Len(requestHeaders)
        colon(l) == CHOOSE i \in 1..Len(l) :
                        l[i] = ":" /\ \A j \in 1..(i - 1) : l[j] # ":"
        keyOf(l) == toLower(trimmed(SubSeq(l, 1, colon(l) - 1)))
        valueOf(l) == trimmed(SubSeq(l, colon(l) + 1, Len(l)))
    IN  /\ \A i, j \in stored :
               i # j => requestHeaders[i][1] # requestHeaders[j][1]
        /\ \A i \in stored : \A c \in 1..Len(requestHeaders[i][1]) :
               \A u \in 1..26 : requestHeaders[i][1][c] # Uppers[u]
        /\ IF ~requestHeadersRead
           THEN requestHeaders = <<>>
           ELSE LET lines == headerLinesOf(inbound)
                    good == {g \in 1..Len(lines) :
                                \E i \in 1..Len(lines[g]) : lines[g][i] = ":"}
                    last(key) == CHOOSE g \in good :
                                    /\ keyOf(lines[g]) = key
                                    /\ \A h \in good :
                                          keyOf(lines[h]) = key => h <= g
                IN  /\ {requestHeaders[i][1] : i \in stored}
                          = {keyOf(lines[g]) : g \in good}
                    /\ \A i \in stored :
                          requestHeaders[i][2]
                              = valueOf(lines[last(requestHeaders[i][1])])
                    /\ Len(SelectSeq(emitted, LAMBDA e :
                              e.arg = "MalformedRequestHeader"))
                          = Len(lines) - Cardinality(good)
        /\ ret.op = "requestHeader" =>
               IF \E i \in stored : requestHeaders[i][1] = toLower(ret.arg)
               THEN \A i \in stored :
                        requestHeaders[i][1] = toLower(ret.arg)
                            => ret.value = requestHeaders[i][2]
               ELSE ret.value = <<>>

\* C13 witness: the lines "A: x" and " a :<tab>y:z " have been parsed, and
\* requestHeader("A") has returned the value of the second
C13_Witness ==
    /\ requestHeadersRead
    /\ inbound = Request(RL_Put10, <<HL_Ax, HL_Padded>>, CRLFCRLF)
    /\ error = "None"
    /\ requestHeaders = << << <<"a">>, <<"y", ":", "z">> >> >>
    /\ ret.op = "requestHeader"
    /\ ret.arg = <<"A">>
    /\ ret.value = <<"y", ":", "z">>

\* C14: once a line of the header block has failed to parse, nothing parsed at
\* or after that line is stored: requestMethod, requestUri and requestHeaders
\* are what the lines before the first failing line set, so all three are
\* empty when the request line is the one that fails.
C14_NothingStoredAfterFailure ==
    requestHeadersRead =>
        LET lines == split(SubSeq(inbound, 1, indexOf(inbound, CRLFCRLF)), CRLF)
            fails(i) ==
                IF i = 1
                THEN parseRequestLine(Constructed, lines[1]).error # "None"
                ELSE \A c \in 1..Len(lines[i]) : lines[i][c] # ":"
            failing == {i \in 1..Len(lines) : fails(i)}
        IN  failing # {} =>
                LET f == CHOOSE i \in failing : \A j \in failing : i <= j
                    before ==
                        IF f = 1 THEN Constructed
                        ELSE foreachHeader(parseRequestLine(Constructed, lines[1]),
                                           SubSeq(lines, 2, f - 1))
                IN  /\ requestMethod = before.requestMethod
                    /\ requestUri = before.requestUri
                    /\ requestHeaders = before.requestHeaders

\* C15: a step in which a parse failure is raised sets the error kind and its
\* message and leaves the transport and the response side alone: the socket
\* is open before and after, nothing is handed to it, writeResponseHeaders
\* does not run, and responseStatusCode, responseHeaders and
\* responseHeadersWritten keep their values.  No data-arrival step at all
\* closes the socket or changes responseHeadersWritten.
C15_FailureLeavesTransport ==
    [][/\ (Len(SelectSeq(emitted', LAMBDA e : e.sig = "errorChanged"))
              > Len(SelectSeq(emitted, LAMBDA e : e.sig = "errorChanged"))) =>
            /\ error' \in {"MalformedRequestLine", "MalformedRequestHeader",
                           "InvalidHttpVersion"}
            /\ errorString' = CASE error' = "MalformedRequestLine" ->
                                       "Malformed request line"
                                [] error' = "MalformedRequestHeader" ->
                                       "Malformed request header"
                                [] error' = "InvalidHttpVersion" ->
                                       "Invalid HTTP version"
            /\ emitted'[Len(emitted') - 1] = [sig |-> "errorChanged", arg |-> error']
            /\ socketOpen /\ socketOpen'
            /\ UNCHANGED <<socketOut, built, responseStatusCode,
                           responseHeaders, responseHeadersWritten>>
       /\ (arrived' # arrived) =>
            UNCHANGED <<socketOpen, responseHeadersWritten>>]_vars

\* C15 witness: the request line "G" has failed to parse, the owner has not
\* written or closed since the connection was set up, and the socket is open
C15_Witness ==
    /\ error = "MalformedRequestLine"
    /\ errorString = "Malformed request line"
    /\ socketOpen
    /\ ~responseHeadersWritten
    /\ built = <<>>
    /\ socketOut = <<>>

\* C16: while requestHeadersRead is false, a data arrival after which the
\* buffer holds no CRLFCRLF appends the bytes to the buffer and does nothing
\* else: requestHeadersRead stays false, the error, its message and the request
\* fields keep their values, and no signal is emitted.
C16_PartialArrival ==
    [][LET all == buffer \o SubSeq(inbound, arrived + 1, arrived')
       IN  (/\ ~requestHeadersRead
            /\ arrived' # arrived
            /\ \A i \in 1..(Len(all) - 3) :
                  SubSeq(all, i, i + 3) # <<"\r", "\n", "\r", "\n">>) =>
               /\ buffer' = all
               /\ UNCHANGED <<requestHeadersRead, error, errorString,
                              requestMethod, requestUri, requestHeaders,
                              emitted, consumed, socketOpen, socketOut,
                              respVars, built>>]_vars

\* C16 witness: a request line, a header line and the first three bytes of
\* the CRLFCRLF have arrived, the fourth being next, and nothing has been
\* parsed or emitted
C16_Witness ==
    /\ ~requestHeadersRead
    /\ buffer = RL_Put10 \o CRLF \o HL_Ax \o <<"\r", "\n", "\r">>
    /\ arrived = Len(buffer)
    /\ arrived < Len(inbound)
    /\ inbound[arrived + 1] = "\n"
    /\ error = "None"
    /\ requestMethod = <<>>
    /\ requestHeaders = <<>>
    /\ emitted = <<>>

C18_AccessorsPure ==
    [][ret'.op \in {"requestMethod", "requestUri", "requestHeaders",
                    "requestHeader"} =>
          /\ UNCHANGED <<inbound, arrived, socketOpen, socketOut, buffer, error,
                         errorString, requestHeadersRead, requestMethod,
                         requestUri, requestHeaders, responseStatusCode,
                         responseHeaders, responseHeadersWritten, emitted,
                         built, consumed, splitInDelim>>
          /\ (~requestHeadersRead => ret'.value = <<>>)
          /\ (ret'.op = "requestMethod" => ret'.value = requestMethod)
          /\ (ret'.op = "requestUri" => ret'.value = requestUri)
          /\ (ret'.op = "requestHeaders" =>
                 /\ Len(ret'.value) = Len(requestHeaders)
                 /\ \A i \in 1..Len(requestHeaders) :
                       ret'.value[i] = requestHeaders[i][1])]_vars

\* C18 witness: the request line and a header line "A: x" are buffered, the
\* CRLFCRLF has not arrived, and requestHeader("A") has returned the empty
\* string
C18_Witness ==
    /\ ~requestHeadersRead
    /\ buffer = RL_Put10 \o CRLF \o HL_Ax
    /\ ret.op = "requestHeader"
    /\ ret.arg = <<"A">>
    /\ ret.value = <<>>
    /\ requestHeaders = <<>>

\* C19: the two sides do not touch each other.  A writeData or a close step
\* (one that returns from writeData, closes the socket or runs
\* writeResponseHeaders) leaves the buffer, requestHeadersRead, the error and
\* the request fields as they are and emits nothing; a data arrival or a
\* readData step leaves responseStatusCode, responseHeaders and
\* responseHeadersWritten as they are and hands nothing to the socket.  Both
\* writeData and close can be called before the headers are complete, after
\* they are, and after a parse failure.
C19_SidesIndependent ==
    [][/\ (ret'.op = "writeData" \/ socketOpen' # socketOpen \/ built' # built) =>
              UNCHANGED <<arrived, buffer, requestHeadersRead, error,
                          errorString, requestMethod, requestUri,
                          requestHeaders, emitted, consumed>>
       /\ (arrived' # arrived \/ ret'.op = "readData") =>
              UNCHANGED <<responseStatusCode, responseHeaders,
                          responseHeadersWritten, built, socketOut,
                          socketOpen>>
       /\ ENABLED close
       /\ (Len(socketOut) < MaxOut => ENABLED writeData)]_vars

\* C19 witness: after the request line "G" has failed to parse, the owner has
\* written a byte and closed
C19_Witness ==
    /\ error = "MalformedRequestLine"
    /\ requestHeadersRead
    /\ socketOut = <<"h">>
    /\ ~socketOpen
    /\ Len(built) = 1
    /\ built[1].by = "writeData"
    /\ arrived = Len(inbound)

\* the bytes hold a CRLFCRLF
hasDelimiter(bytes) ==
    \E i \in 1..(Len(bytes) - 3) :
        SubSeq(bytes, i, i + 3) = <<"\r", "\n", "\r", "\n">>

\* C20: with every chunk delivered, a request that holds a CRLFCRLF leads to
\* requestHeadersRead becoming true.  It becomes true in the data-arrival step
\* that brings the last byte of the first CRLFCRLF, and in no other step, and
\* that step emits requestHeadersParsed or errorChanged (at least one of the
\* two).  As long as the bytes arrived hold no CRLFCRLF, and so for ever when
\* the request holds none, requestHeadersRead is false, the error is None and
\* no signal has been emitted.
C20_Progress ==
    /\ hasDelimiter(inbound) ~> requestHeadersRead
    /\ [][(~requestHeadersRead /\ arrived' # arrived) =>
             IF hasDelimiter(SubSeq(inbound, 1, arrived'))
             THEN /\ requestHeadersRead'
                  /\ Len(emitted') > Len(emitted)
                  /\ \A k \in (Len(emitted) + 1)..Len(emitted') :
                        emitted'[k].sig \in {"requestHeadersParsed", "errorChanged"}
             ELSE ~requestHeadersRead']_vars
    /\ [](~hasDelimiter(SubSeq(inbound, 1, arrived)) =>
             /\ ~requestHeadersRead
             /\ error = "None"
             /\ emitted = <<>>)

\* C20 witness: a chunk boundary fell inside the CRLFCRLF of a request whose
\* header line fails, and the step that brought the rest of the CRLFCRLF set
\* requestHeadersRead and raised the error
C20_Witness ==
    /\ splitInDelim
    /\ requestHeadersRead
    /\ error = "MalformedRequestHeader"
    /\ requestMethod = <<"P">>
    /\ buffer = <<>>
    /\ consumed = <<>>
    /\ arrived + Len(Body_hi) = Len(inbound)

====
